---- MODULE Spec2Model ----
(***************************************************************************)
(* Model of the region descriptors of src/axutils.py (class RangeDesc):    *)
(* a rectangle of four inclusive bounds plus a name-based reference to a   *)
(* sheet of a workbook, and the operations that validate, translate,       *)
(* intersect, shift and duplicate it.  The spreadsheet application is the  *)
(* environment: which surfaces exist (live), whether an address resolves,  *)
(* whether a handle read or an insertion succeeds are inputs of the        *)
(* actions.                                                                *)
(***************************************************************************)
EXTENDS Integers, Sequences, FiniteSets, TLC

\* Largest row index and largest column index of the grid a single region is
\* driven over.
MaxRow == 2

MaxCol == 1

\* Largest row and column index of the grid two regions are placed on.
MaxCell == 3

\* ---------------------------------------------------------------- values

\* Python's None where a name is expected (_wb_name_, _sh_name_).
None == "None"

\* Address of "no object" (Python's None where a RangeDesc is expected).
Null == 0

Books == {"B1"}

Sheets == {"S1", "S2"}

\* A surface is a sheet of a workbook, identified by (book.fullname, name).
Surfaces == Books \X Sheets

Rows == 0..MaxRow

Cols == 0..MaxCol

\* An optional argument: <<>> is an omitted (None) argument, <<x>> is x.
Opt(S) == {<<>>} \cup {<<x>> : x \in S}

OrElse(o, d) == IF o = <<>> THEN d ELSE o[1]

Min(a, b) == IF a <= b THEN a ELSE b

Max(a, b) == IF a >= b THEN a ELSE b

\* Outcomes of a call: it returned, or one of these was raised to the caller.
OK == "none"

InvalidRange == "InvalidRange"

UnsupportedMode == "UnsupportedMode"

\* xw.Book(name).sheets[name] raised: the named workbook or sheet is missing.
ResolutionFailure == "ResolutionFailure"

\* sheet.range(...) or range.insert(...) raised.
SurfaceFailure == "SurfaceFailure"

\* an attribute of None was used (target.worksheet is None).
AttributeError == "AttributeError"

VARIABLES
    heap,    \* sequence of RangeDesc objects; an address is an index
    self,    \* address of the region the caller holds as `self`
    target,  \* address of the caller's second region, or Null
    live,    \* the surfaces that exist in the application
    op,      \* name of the last call
    arg,     \* what the first call on the regions as placed was made with:
             \* the receiver before the call, then the arguments
    err,     \* outcome of the last call: OK or the error raised
    ret,     \* address returned by the last call, Null for None / a raise
    ins,     \* the insertion or growth the last call requested on the surface,
             \* or <<>>
    comps    \* sequence of composite objects (SheetDesc, SheetDescPair,
             \* RangeDescPair); where the caller holds composites, self,
             \* target and ret are addresses in this sequence

vars == <<heap, self, target, live, op, arg, err, ret, ins, comps>>

\* ------------------------------------------------------------ RangeDesc

\* RangeDesc.__init__
RangeDesc ==
    [row_start |-> 0, col_start |-> 0, row_end |-> 0, col_end |-> 0,
     wb_name |-> None, sh_name |-> None]

Bounds(r) == <<r.row_start, r.col_start, r.row_end, r.col_end>>

Ref(r) == <<r.wb_name, r.sh_name>>

\* the ordering invariant of a region
Ordered(r) == r.row_start <= r.row_end /\ r.col_start <= r.col_end

checkLoose(r, row_start, col_start, row_end, col_end) ==
    LET r1 == OrElse(row_start, r.row_start)
        r2 == OrElse(col_start, r.col_start)
        r3 == OrElse(row_end, r.row_end)
        r4 == OrElse(col_end, r.col_end)
    IN  IF (r1 > r3) /\ (r2 > r4)
        THEN [reg |-> r, err |-> InvalidRange]
        ELSE [reg |-> [r EXCEPT !.row_start = r1, !.col_start = r2,
                                !.row_end = r3, !.col_end = r4],
              err |-> OK]

\* RangeDesc.__check__: validate the combined bounds, then store them.
check(r, row_start, col_start, row_end, col_end) ==
    LET r1 == OrElse(row_start, r.row_start)
        r2 == OrElse(col_start, r.col_start)
        r3 == OrElse(row_end, r.row_end)
        r4 == OrElse(col_end, r.col_end)
    IN  IF (r1 > r3) \/ (r2 > r4)
        THEN [reg |-> r, err |-> InvalidRange]
        ELSE [reg |-> [r EXCEPT !.row_start = r1, !.col_start = r2,
                                !.row_end = r3, !.col_end = r4],
              err |-> OK]

\* RangeDesc.update
update(r, row_start, col_start, row_end, col_end) ==
    check(r, row_start, col_start, row_end, col_end)

\* RangeDesc.update_by_xy: px / py are (row, col) pairs or omitted.
update_by_xy(r, px, py) ==
    LET r1 == IF px = <<>> THEN r.row_start ELSE px[1][1]
        r2 == IF px = <<>> THEN r.col_start ELSE px[1][2]
        r3 == IF py = <<>> THEN r.row_end ELSE py[1][1]
        r4 == IF py = <<>> THEN r.col_end ELSE py[1][2]
    IN  check(r, <<r1>>, <<r2>>, <<r3>>, <<r4>>)

\* RangeDesc.worksheet: None (<<>>) when unbound, else the live sheet looked
\* up by name; the lookup raises when the workbook or the sheet is missing.
worksheet(r, lv) ==
    IF (r.wb_name # None) /\ (r.sh_name # None)
    THEN IF <<r.wb_name, r.sh_name>> \in lv
         THEN [err |-> OK, sheet |-> << <<r.wb_name, r.sh_name>> >>]
         ELSE [err |-> ResolutionFailure, sheet |-> <<>>]
    ELSE [err |-> OK, sheet |-> <<>>]

attachOrDetach(r, ws) ==
    IF ws = <<>> THEN [r EXCEPT !.wb_name = None, !.sh_name = None]
    ELSE [r EXCEPT !.wb_name = ws[1][1], !.sh_name = ws[1][2]]

\* RangeDesc.attach: ws is an optional live sheet handle (book.fullname, name).
attach(r, ws) ==
    IF ws = <<>> THEN r
    ELSE [r EXCEPT !.wb_name = ws[1][1], !.sh_name = ws[1][2]]

\* RangeDesc.detach
detach(r) == [r EXCEPT !.wb_name = None, !.sh_name = None]

\* RangeDesc.update_from: desc is an optional region.
update_from(r, desc) ==
    IF desc = <<>> THEN [reg |-> r, err |-> OK]
    ELSE LET d == desc[1]
             bound == [r EXCEPT !.wb_name = d.wb_name, !.sh_name = d.sh_name]
         IN  update(bound, <<d.row_start>>, <<d.col_start>>,
                    <<d.row_end>>, <<d.col_end>>)

\* ------------------------------------------------------------- surface

\* An address names a rectangle <<top, left, bottom, right>> of cells; the
\* grid is 1-based, so an address with a 0 in it does not resolve.
BadAddr == <<0, 0, 0, 0>>

\* The addresses of single cells a caller passes, and one that is no address.
CellAddr == {<<r, c, r, c>> : r \in 1..MaxRow, c \in 1..MaxCol} \cup {BadAddr}

ValidAddr(a) == a[1] >= 1 /\ a[2] >= 1 /\ a[3] >= 1 /\ a[4] >= 1

\* sheet.range(cell1, cell2): the handle spanning both addresses; fails on a
\* missing or invalid address.
sheet_range(cell1, cell2) ==
    IF cell1 = <<>> \/ ~ValidAddr(cell1[1]) THEN [ok |-> FALSE]
    ELSE IF cell2 = <<>>
         THEN [ok |-> TRUE, row |-> cell1[1][1], column |-> cell1[1][2],
               last_row |-> cell1[1][3], last_column |-> cell1[1][4]]
         ELSE IF ~ValidAddr(cell2[1]) THEN [ok |-> FALSE]
         ELSE [ok |-> TRUE,
               row |-> Min(cell1[1][1], cell2[1][1]),
               column |-> Min(cell1[1][2], cell2[1][2]),
               last_row |-> Max(cell1[1][3], cell2[1][3]),
               last_column |-> Max(cell1[1][4], cell2[1][4])]

\* RangeDesc.update_by: adopt the bounds of the handle the address resolves
\* to.  reads is the number of handle reads (row, column, last_cell.row,
\* last_cell.column) that succeed before the surface fails; 4 = all of them.
update_by(r, lv, cell1, cell2, reads) ==
    LET ws == worksheet(r, lv)
    IN  IF ws.err # OK THEN [reg |-> r, err |-> ws.err]
        ELSE IF ws.sheet = <<>> THEN [reg |-> r, err |-> OK]
        ELSE LET rg == sheet_range(cell1, cell2)
             IN  IF ~rg.ok THEN [reg |-> r, err |-> OK]
                 ELSE [reg |-> [r EXCEPT
                          !.row_start = IF reads >= 1 THEN rg.row ELSE @,
                          !.col_start = IF reads >= 2 THEN rg.column ELSE @,
                          !.row_end = IF reads >= 3 THEN rg.last_row ELSE @,
                          !.col_end = IF reads >= 4 THEN rg.last_column ELSE @],
                       err |-> OK]

offsetStart(r, row_offset, column_offset) ==
    LET vr == OrElse(row_offset, 0)
        vc == OrElse(column_offset, 0)
    IN  update(r, <<r.row_start + vr>>, <<r.col_start + vc>>, <<>>, <<>>)

\* RangeDesc.offset
offset(r, row_offset, column_offset) ==
    LET vr == OrElse(row_offset, 0)
        vc == OrElse(column_offset, 0)
    IN  update(r, <<r.row_start + vr>>, <<r.col_start + vc>>,
               <<r.row_end + vr>>, <<r.col_end + vc>>)

\* RangeDesc.width
width(r) == r.col_end - r.col_start + 1

\* RangeDesc.height
height(r) == r.row_end - r.row_start + 1

resizeNoPlusOne(r, row_size, column_size) ==
    LET vr == IF row_size = <<>> THEN 0
              ELSE row_size[1] - (r.row_end - r.row_start)
        vc == IF column_size = <<>> THEN 0
              ELSE column_size[1] - (r.col_end - r.col_start)
    IN  update(r, <<>>, <<>>, <<r.row_end + vr>>, <<r.col_end + vc>>)

\* RangeDesc.resize
resize(r, row_size, column_size) ==
    LET vr == IF row_size = <<>> THEN 0 ELSE row_size[1] - height(r)
        vc == IF column_size = <<>> THEN 0 ELSE column_size[1] - width(r)
    IN  update(r, <<>>, <<>>, <<r.row_end + vr>>, <<r.col_end + vc>>)

moveStartOnly(r, px) == update(r, <<px[1]>>, <<px[2]>>, <<>>, <<>>)

\* RangeDesc.move with a (row, col) tuple, or with the first cell (row,
\* column) of a live xw.Range handle.
move(r, px) ==
    LET vr == px[1] - r.row_start
        vc == px[2] - r.col_start
    IN  update(r, <<px[1]>>, <<px[2]>>, <<r.row_end + vr>>, <<r.col_end + vc>>)

move_strRaises(r, lv, px) ==
    LET ws == worksheet(r, lv)
        rg == sheet_range(<<px>>, <<>>)
    IN  IF ws.err # OK THEN [reg |-> r, err |-> ws.err]
        ELSE IF ws.sheet = <<>> \/ ~rg.ok THEN [reg |-> r, err |-> OK]
        ELSE [reg |-> move(r, <<rg.row, rg.column>>).reg, err |-> OK]

\* RangeDesc.move with an address string: everything, the lookup of the sheet
\* included, runs inside try/except, so every failure leaves the region alone.
move_str(r, lv, px) ==
    LET ws == worksheet(r, lv)
        rg == sheet_range(<<px>>, <<>>)
    IN  IF ws.err # OK \/ ws.sheet = <<>> \/ ~rg.ok
        THEN [reg |-> r, err |-> OK]
        ELSE [reg |-> move(r, <<rg.row, rg.column>>).reg, err |-> OK]

not_in_scope3(r, tg) ==
    \/ tg.row_start > r.row_end
    \/ tg.row_end < r.row_start
    \/ tg.col_start > r.col_end

\* intersect's "Target not in scope" test: tg lies entirely below, above,
\* right of or left of r.
not_in_scope(r, tg) ==
    \/ tg.row_start > r.row_end
    \/ tg.row_end < r.row_start
    \/ tg.col_start > r.col_end
    \/ tg.col_end < r.col_start

sideOwn(edge, lo, hi, own) == own

sideEdge(edge, lo, hi, own) == edge

\* intersect's rule for one side: the target's edge when it falls within the
\* receiver's span lo..hi on that axis, else the receiver's own bound.
side(edge, lo, hi, own) ==
    IF (edge >= lo) /\ (edge <= hi) THEN edge ELSE own

\* RangeDesc.intersect: t is the optional target region.  The result is a new
\* region (res = <<region>>) or None (res = <<>>).
intersect(r, t, lv) ==
    LET ws == worksheet(r, lv)
    IN  IF ws.err # OK THEN [err |-> ws.err, res |-> <<>>]
        ELSE IF t = <<>> THEN [err |-> OK, res |-> <<>>]
        ELSE LET tg == t[1]
                 tw == worksheet(tg, lv)
             IN  IF tw.err # OK THEN [err |-> tw.err, res |-> <<>>]
                 ELSE IF tw.sheet # ws.sheet THEN [err |-> OK, res |-> <<>>]
                 ELSE IF not_in_scope(r, tg) THEN [err |-> OK, res |-> <<>>]
                 ELSE LET r1 == side(tg.row_start, r.row_start, r.row_end, r.row_start)
                          r2 == side(tg.col_start, r.col_start, r.col_end, r.col_start)
                          r3 == side(tg.row_end, r.row_start, r.row_end, r.row_end)
                          r4 == side(tg.col_end, r.col_start, r.col_end, r.col_end)
                          u == update(attach(RangeDesc, ws.sheet),
                                      <<r1>>, <<r2>>, <<r3>>, <<r4>>)
                      IN  IF u.err # OK THEN [err |-> u.err, res |-> <<>>]
                          ELSE [err |-> OK, res |-> <<u.reg>>]

\* dec2alphabet: a column number as column letters (a sequence of character
\* codes); the empty string for a number below 1.
RECURSIVE dec2alphabet(_)
dec2alphabet(dec) ==
    IF dec <= 0 THEN <<>>
    ELSE IF dec <= 26 THEN <<64 + dec>>
    ELSE dec2alphabet((dec - 1) \div 26) \o <<65 + ((dec - 1) % 26)>>

\* The column the surface reads from column letters (0 for the empty string).
RECURSIVE column_of(_)
column_of(letters) ==
    IF letters = <<>> THEN 0
    ELSE 26 * column_of(SubSeq(letters, 1, Len(letters) - 1))
         + (letters[Len(letters)] - 64)

\* The ways the surface can answer shift_away's requests.
SurfaceAnswers == {"ok", "range_fails", "insert_fails"}

\* The range shift_away asks the sheet for, as <<top, left, bottom, right>>
\* with 0 for "whole row / column"; ok is whether the address resolves.
shift_range(r, tg, mode, entire) ==
    LET gap_h == tg.col_end - r.col_start
        gap_v == tg.row_end - r.row_start
    IN  IF mode = "right"
        THEN IF entire
             THEN LET c1 == dec2alphabet(r.col_start)
                      c2 == dec2alphabet(r.col_start + gap_h)
                  IN  [ok |-> c1 # <<>> /\ c2 # <<>>,
                       span |-> <<0, column_of(c1), 0, column_of(c2)>>]
             ELSE [ok |-> ValidAddr(<<r.row_start, r.col_start,
                                      r.row_end, r.col_start + gap_h>>),
                   span |-> <<r.row_start, r.col_start,
                              r.row_end, r.col_start + gap_h>>]
        ELSE IF entire
             THEN [ok |-> r.row_start >= 1 /\ r.row_start + gap_v >= 1,
                   span |-> <<r.row_start, 0, r.row_start + gap_v, 0>>]
             ELSE [ok |-> ValidAddr(<<r.row_start, r.col_start,
                                      r.row_start + gap_v, r.col_end>>),
                   span |-> <<r.row_start, r.col_start,
                              r.row_start + gap_v, r.col_end>>]

shift_overlappingNoSkip(r, tg, lv, mode, entire, answer) ==
    IF mode \notin {"right", "down"}
    THEN [reg |-> r, err |-> UnsupportedMode, ins |-> <<>>]
    ELSE LET tw == worksheet(tg, lv)
             rng == shift_range(r, tg, mode, entire)
             gap_h == tg.col_end - r.col_start
             gap_v == tg.row_end - r.row_start
         IN  IF tw.sheet = <<>>
             THEN [reg |-> r, err |-> AttributeError, ins |-> <<>>]
             ELSE IF ~rng.ok \/ answer = "range_fails"
             THEN [reg |-> r, err |-> SurfaceFailure, ins |-> <<>>]
             ELSE IF answer = "insert_fails"
             THEN [reg |-> r, err |-> SurfaceFailure, ins |-> <<mode, rng.span>>]
             ELSE LET m == IF mode = "right"
                           THEN move(r, <<r.row_start, r.col_start + gap_h>>)
                           ELSE move(r, <<r.row_start + gap_v, r.col_start>>)
                  IN  [reg |-> m.reg, err |-> m.err, ins |-> <<mode, rng.span>>]

\* shift_away once self and target are known to overlap: the mode branches,
\* the insertion and the move.  answer is how the surface answers; ins is the
\* insertion requested (<<mode, span>>) or <<>>.
shift_overlapping(r, tg, lv, mode, entire, answer) ==
    IF mode \notin {"right", "down"}
    THEN [reg |-> r, err |-> UnsupportedMode, ins |-> <<>>]
    ELSE LET tw == worksheet(tg, lv)
             rng == shift_range(r, tg, mode, entire)
             gap_h == tg.col_end - r.col_start
             gap_v == tg.row_end - r.row_start
         IN  IF tw.sheet = <<>>
             THEN [reg |-> r, err |-> AttributeError, ins |-> <<>>]
             ELSE IF ~rng.ok \/ answer = "range_fails"
             THEN [reg |-> r, err |-> SurfaceFailure, ins |-> <<>>]
             ELSE IF answer = "insert_fails"
             THEN [reg |-> r, err |-> SurfaceFailure, ins |-> <<mode, rng.span>>]
             ELSE LET m == IF mode = "right"
                           THEN move(r, <<r.row_start, r.col_start + gap_h + 1>>)
                           ELSE move(r, <<r.row_start + gap_v + 1, r.col_start>>)
                  IN  [reg |-> m.reg, err |-> m.err, ins |-> <<mode, rng.span>>]

shift_awayModeFirst(r, t, lv, mode, entire, answer) ==
    LET it == intersect(r, t, lv)
    IN  IF mode \notin {"right", "down"}
        THEN [reg |-> r, err |-> UnsupportedMode, ins |-> <<>>]
        ELSE IF it.err # OK THEN [reg |-> r, err |-> it.err, ins |-> <<>>]
        ELSE IF it.res = <<>> THEN [reg |-> r, err |-> OK, ins |-> <<>>]
        ELSE shift_overlapping(r, t[1], lv, mode, entire, answer)

\* RangeDesc.shift_away: nothing to do unless self.intersect(target) is a
\* region; then the mode branches.
shift_away(r, t, lv, mode, entire, answer) ==
    LET it == intersect(r, t, lv)
    IN  IF it.err # OK THEN [reg |-> r, err |-> it.err, ins |-> <<>>]
        ELSE IF it.res = <<>> THEN [reg |-> r, err |-> OK, ins |-> <<>>]
        ELSE shift_overlapping(r, t[1], lv, mode, entire, answer)

\* RangeDesc.duplicate: a new region with the bounds of r, attached to the
\* live sheet r resolves to.
duplicate(r, lv) ==
    LET cloned == update(RangeDesc, <<r.row_start>>, <<r.col_start>>,
                         <<r.row_end>>, <<r.col_end>>)
        ws == worksheet(r, lv)
    IN  IF cloned.err # OK THEN [err |-> cloned.err, res |-> <<>>]
        ELSE IF ws.err # OK THEN [err |-> ws.err, res |-> <<>>]
        ELSE [err |-> OK, res |-> <<attach(cloned.reg, ws.sheet)>>]

\* The ways the surface can answer expand's requests.
ExpandAnswers == {"ok", "no_range", "value_fails", "blank", "expand_fails"}

ExpandModes == {"table", "down", "right"}

\* update_by as expand calls it, after the growth mode was requested of the
\* surface.
expand_adopt(r, lv, mode, addr, reads) ==
    LET u == update_by(r, lv, <<addr>>, <<>>, reads)
    IN  [reg |-> u.reg, err |-> u.err, req |-> <<"expand", mode>>]

expandNoBlankTest(r, lv, mode, answer, grown, reads) ==
    LET ws == worksheet(r, lv)
        top == Min(r.row_start, r.row_end)
        left == Min(r.col_start, r.col_end)
        addr == <<top, left,
                  IF mode = "right" THEN top ELSE grown[1],
                  IF mode = "down" THEN left ELSE grown[2]>>
    IN  IF ws.err # OK THEN [reg |-> r, err |-> ws.err, req |-> <<>>]
        ELSE IF ws.sheet = <<>> THEN [reg |-> r, err |-> OK, req |-> <<>>]
        ELSE IF ~ValidAddr(Bounds(r)) \/ answer = "no_range"
             THEN [reg |-> r, err |-> OK, req |-> <<>>]
        ELSE IF answer = "value_fails"
             THEN [reg |-> r, err |-> SurfaceFailure, req |-> <<>>]
        ELSE IF answer = "expand_fails"
             THEN [reg |-> r, err |-> SurfaceFailure, req |-> <<"expand", mode>>]
        ELSE expand_adopt(r, lv, mode, addr, reads)

\* RangeDesc.expand.  answer is how the surface answers; grown = <<bottom,
\* right>> is the last cell of the filled area the surface finds from the
\* anchor; reads is update_by's number of successful handle reads.  req is
\* the growth requested of the surface (<<"expand", mode>>) or <<>>.
expand(r, lv, mode, answer, grown, reads) ==
    LET ws == worksheet(r, lv)
        top == Min(r.row_start, r.row_end)
        left == Min(r.col_start, r.col_end)
        addr == <<top, left,
                  IF mode = "right" THEN top ELSE grown[1],
                  IF mode = "down" THEN left ELSE grown[2]>>
    IN  IF ws.err # OK THEN [reg |-> r, err |-> ws.err, req |-> <<>>]
        ELSE IF ws.sheet = <<>> THEN [reg |-> r, err |-> OK, req |-> <<>>]
        ELSE IF ~ValidAddr(Bounds(r)) \/ answer = "no_range"
             THEN [reg |-> r, err |-> OK, req |-> <<>>]
        ELSE IF answer = "value_fails"
             THEN [reg |-> r, err |-> SurfaceFailure, req |-> <<>>]
        ELSE IF answer = "blank" THEN [reg |-> r, err |-> OK, req |-> <<>>]
        ELSE IF answer = "expand_fails"
             THEN [reg |-> r, err |-> SurfaceFailure, req |-> <<"expand", mode>>]
        ELSE expand_adopt(r, lv, mode, addr, reads)

\* ------------------------------------------------------------- actions

\* The objects the caller still holds; a region returned by the previous
\* call and not kept is dropped.
Kept == SubSeq(heap, 1, Max(self, target))

\* The regions are as the caller placed them: no call has been made yet.
Placed == op = "init"

\* The first call is recorded with the receiver as it was and its arguments.
Recorded(o, a) == IF Placed THEN <<heap[o]>> \o a ELSE <<>>

\* A call on the object at address o ends: its new state, outcome and result.
Return(name, a, o, res, i) ==
    /\ heap' = [Kept EXCEPT ![o] = res.reg]
    /\ op' = name
    /\ arg' = Recorded(o, a)
    /\ err' = res.err
    /\ ret' = IF res.err = OK THEN o ELSE Null
    /\ ins' = i
    /\ UNCHANGED <<self, target, live, comps>>

Update(o) ==
    \E a \in Opt(Rows), b \in Opt(Cols), c \in Opt(Rows), d \in Opt(Cols) :
        Return("update", <<a, b, c, d>>, o, update(heap[o], a, b, c, d), <<>>)

UpdateByXY(o) ==
    \E px \in Opt(Rows \X Cols), py \in Opt(Rows \X Cols) :
        Return("update_by_xy", <<px, py>>, o, update_by_xy(heap[o], px, py), <<>>)

\* cell2, when given, names a cell at or after cell1; the handle fails only
\* once there is a handle (reads < 4 only when the address resolves).
UpdateBy(o) ==
    \E cell1 \in Opt(CellAddr), cell2 \in Opt(CellAddr), reads \in 0..4 :
        /\ cell2 # <<>> =>
              /\ cell1 # <<>>
              /\ cell2[1] = BadAddr \/ (cell1[1][1] <= cell2[1][1] /\ cell1[1][2] <= cell2[1][2])
        /\ reads < 4 => sheet_range(cell1, cell2).ok
        /\ Return("update_by", <<cell1, cell2, reads>>, o,
                  update_by(heap[o], live, cell1, cell2, reads), <<>>)

Attach(o) ==
    \E ws \in Opt(live) :
        Return("attach", <<ws>>, o, [reg |-> attach(heap[o], ws), err |-> OK], <<>>)

Detach(o) ==
    Return("detach", <<>>, o, [reg |-> detach(heap[o]), err |-> OK], <<>>)

\* A region with the given bounds and sheet reference.
Region(b, ref) ==
    [row_start |-> b[1], col_start |-> b[2], row_end |-> b[3], col_end |-> b[4],
     wb_name |-> ref[1], sh_name |-> ref[2]]

\* The bounds of the regions placed on the grid: ordered, 1-based.
GridBounds ==
    {b \in (1..MaxRow) \X (1..MaxCol) \X (1..MaxRow) \X (1..MaxCol) :
        b[1] <= b[3] /\ b[2] <= b[4]}

\* The sheet references a region can hold: none, or the names of a surface.
Refs == {<<None, None>>} \cup Surfaces

\* The regions a caller passes as an argument: fresh, or placed on the grid,
\* unbound or bound to a surface.
ArgRegions ==
    {Region(b, ref) : b \in GridBounds \cup {<<0, 0, 0, 0>>}, ref \in Refs}

\* The region stays on the modelled grid.
OnGrid(r) ==
    /\ r.row_start \in Rows /\ r.row_end \in Rows
    /\ r.col_start \in Cols /\ r.col_end \in Cols

UpdateFrom(o) ==
    \E desc \in Opt(ArgRegions) :
        Return("update_from", <<desc>>, o, update_from(heap[o], desc), <<>>)

Offset(o) ==
    \E dr \in Opt(-MaxRow..MaxRow), dc \in Opt(-MaxCol..MaxCol) :
        LET res == offset(heap[o], dr, dc)
        IN  /\ OnGrid(res.reg)
            /\ Return("offset", <<dr, dc>>, o, res, <<>>)

Resize(o) ==
    \E row_size \in Opt(0..MaxRow + 1), column_size \in Opt(0..MaxCol + 1) :
        LET res == resize(heap[o], row_size, column_size)
        IN  /\ OnGrid(res.reg)
            /\ Return("resize", <<row_size, column_size>>, o, res, <<>>)

Move(o) ==
    \E px \in Rows \X Cols :
        LET res == move(heap[o], px)
        IN  /\ OnGrid(res.reg)
            /\ Return("move", <<px>>, o, res, <<>>)

MoveStr(o) ==
    \E px \in CellAddr :
        LET res == move_str(heap[o], live, px)
        IN  /\ OnGrid(res.reg)
            /\ Return("move_str", <<px>>, o, res, <<>>)

Expand(o) ==
    \E mode \in ExpandModes, answer \in ExpandAnswers :
        \E grown \in IF answer = "ok" THEN (1..MaxRow) \X (1..MaxCol)
                     ELSE {<<MaxRow, MaxCol>>},
           reads \in IF answer = "ok" THEN 0..4 ELSE {4} :
            /\ grown[1] >= Min(heap[o].row_start, heap[o].row_end)
            /\ grown[2] >= Min(heap[o].col_start, heap[o].col_end)
            /\ LET res == expand(heap[o], live, mode, answer, grown, reads)
               IN  Return("expand", <<mode, answer, grown, reads>>, o, res, res.req)

\* The address of an optional region argument as the optional region.
Deref(t) == IF t = Null THEN <<>> ELSE <<heap[t]>>

\* heap[o].intersect(t) for the region at address t, or for None (t = Null).
\* The region returned is a new object.
Intersect(o, t) ==
    LET res == intersect(heap[o], Deref(t), live)
    IN  /\ heap' = IF res.res = <<>> THEN Kept ELSE Append(Kept, res.res[1])
        /\ ret' = IF res.res = <<>> THEN Null ELSE Len(Kept) + 1
        /\ op' = "intersect"
        /\ arg' = Recorded(o, <<t, Deref(t)>>)
        /\ err' = res.err
        /\ ins' = <<>>
        /\ UNCHANGED <<self, target, live, comps>>

ShiftModes == {"right", "down", "up"}

\* heap[o].shift_away(t, mode, entire) for the region at address t, or None.
ShiftAway(o, t) ==
    \E mode \in ShiftModes, entire \in BOOLEAN, answer \in SurfaceAnswers :
        LET res == shift_away(heap[o], Deref(t), live, mode, entire, answer)
        IN  Return("shift_away", <<t, mode, entire>>, o, res, res.ins)

\* target = heap[o].duplicate(): the caller keeps the clone as its second
\* region.
Duplicate(o) ==
    LET res == duplicate(heap[o], live)
    IN  /\ heap' = IF res.res = <<>> THEN Kept ELSE Append(Kept, res.res[1])
        /\ ret' = IF res.res = <<>> THEN Null ELSE Len(Kept) + 1
        /\ target' = IF res.res = <<>> THEN target ELSE Len(Kept) + 1
        /\ op' = "duplicate"
        /\ arg' = Recorded(o, <<>>)
        /\ err' = res.err
        /\ ins' = <<>>
        /\ UNCHANGED <<self, live, comps>>

\* The environment removes a sheet (or closes its workbook); sheet S1 is the
\* one that stays.
CloseSurface ==
    \E s \in live :
        /\ s[2] # "S1"
        /\ live' = live \ {s}
        /\ UNCHANGED <<heap, self, target, op, arg, err, ret, ins, comps>>

\* One region, freshly constructed, driven through every mutating operation.
Init ==
    /\ heap = <<RangeDesc>>
    /\ self = 1
    /\ target = Null
    /\ live = Surfaces
    /\ op = "init"
    /\ arg = <<>>
    /\ err = OK
    /\ ret = Null
    /\ ins = <<>>
    /\ comps = <<>>

Next ==
    \/ Update(self)
    \/ UpdateByXY(self)
    \/ UpdateFrom(self)
    \/ UpdateBy(self)
    \/ Offset(self)
    \/ Resize(self)
    \/ Move(self)
    \/ MoveStr(self)
    \/ Expand(self)
    \/ Attach(self)
    \/ Detach(self)
    \/ CloseSurface

Spec == Init /\ [][Next]_vars

\* Every region a single region can become: any four bounds of the grid,
\* ordered or not, with any sheet reference.
AnyRegions ==
    {Region(b, ref) : b \in Rows \X Cols \X Rows \X Cols, ref \in Refs}

\* Sheet S2 exists, or has been removed since the regions were bound.
LiveSets == {Surfaces, {s \in Surfaces : s[2] # "S2"}}

\* The surfaces that exist matter only to a region that names one.
LiveFor(regions) ==
    IF \E r \in regions : r.sh_name = "S2" THEN LiveSets ELSE {Surfaces}

\* One region in any state, then one call on it, recorded with its arguments.
InitCall ==
    /\ \E s \in AnyRegions :
          /\ heap = <<s>>
          /\ live \in LiveFor({s})
    /\ self = 1
    /\ target = Null
    /\ op = "init"
    /\ arg = <<>>
    /\ err = OK
    /\ ret = Null
    /\ ins = <<>>
    /\ comps = <<>>

NextCall ==
    \/ Placed /\ Update(self)
    \/ Placed /\ UpdateByXY(self)
    \/ Placed /\ UpdateFrom(self)
    \/ Placed /\ UpdateBy(self)
    \/ Placed /\ Offset(self)
    \/ Placed /\ Resize(self)
    \/ Placed /\ Move(self)
    \/ Placed /\ MoveStr(self)
    \/ Placed /\ Expand(self)
    \/ Placed /\ Attach(self)
    \/ Placed /\ Detach(self)

SpecCall == InitCall /\ [][NextCall]_vars

\* The bounds of the regions two of which are placed on the grid.
PairBounds ==
    {b \in (1..MaxCell) \X (1..MaxCell) \X (1..MaxCell) \X (1..MaxCell) :
        b[1] <= b[3] /\ b[2] <= b[4]}

\* The regions the caller has built with update and attach: fresh or placed
\* on the grid, unbound or bound by name to a surface.
PairRegions ==
    {Region(b, ref) : b \in PairBounds \cup {<<0, 0, 0, 0>>}, ref \in Refs}

\* Two regions as the caller placed them, then one call on them.
InitPair ==
    /\ \E s \in PairRegions, t \in PairRegions :
          /\ heap = <<s, t>>
          /\ live \in LiveFor({s, t})
    /\ self = 1
    /\ target = 2
    /\ op = "init"
    /\ arg = <<>>
    /\ err = OK
    /\ ret = Null
    /\ ins = <<>>
    /\ comps = <<>>

PairIntersect == Placed /\ \E t \in {target, Null} : Intersect(self, t)

PairIntersectBack == Placed /\ Intersect(target, self)

PairShiftAway == Placed /\ \E t \in {target, Null} : ShiftAway(self, t)

NextPair ==
    \/ PairIntersect
    \/ PairIntersectBack
    \/ PairShiftAway

SpecPair == InitPair /\ [][NextPair]_vars

\* One region as the caller placed it, its duplicate, then one mutation of
\* either of the two.
InitDup ==
    /\ \E s \in PairRegions :
          /\ heap = <<s>>
          /\ live \in LiveFor({s})
    /\ self = 1
    /\ target = Null
    /\ op = "init"
    /\ arg = <<>>
    /\ err = OK
    /\ ret = Null
    /\ ins = <<>>
    /\ comps = <<>>

DupDuplicate == Placed /\ Duplicate(self)

\* the duplicate exists and neither region has been touched since
Duplicated == op = "duplicate" /\ err = OK

DupUpdate == Duplicated /\ \E o \in {self, target} : Update(o)

DupAttach == Duplicated /\ \E o \in {self, target} : Attach(o)

DupDetach == Duplicated /\ \E o \in {self, target} : Detach(o)

NextDup ==
    \/ DupDuplicate
    \/ DupUpdate
    \/ DupAttach
    \/ DupDetach

SpecDup == InitDup /\ [][NextDup]_vars

\* Two regions as the caller placed them; the second may be refreshed from
\* the surface with update_by, then the first copies it with update_from.
InitFrom ==
    /\ \E s \in ArgRegions, t \in ArgRegions :
          /\ heap = <<s, t>>
          /\ live \in LiveFor({s, t})
    /\ self = 1
    /\ target = 2
    /\ op = "init"
    /\ arg = <<>>
    /\ err = OK
    /\ ret = Null
    /\ ins = <<>>
    /\ comps = <<>>

FromUpdateBy == Placed /\ UpdateBy(target)

\* heap[self].update_from(t) for the region at address t, or for None; the
\* call is recorded with the receiver and the argument as they were.
FromUpdateFrom ==
    /\ op \in {"init", "update_by"}
    /\ \E t \in {target, Null} :
          LET res == update_from(heap[self], Deref(t))
          IN  /\ heap' = [Kept EXCEPT ![self] = res.reg]
              /\ op' = "update_from"
              /\ arg' = <<heap[self], t, Deref(t)>>
              /\ err' = res.err
              /\ ret' = IF res.err = OK THEN self ELSE Null
              /\ ins' = <<>>
              /\ UNCHANGED <<self, target, live, comps>>

NextFrom ==
    \/ FromUpdateBy
    \/ FromUpdateFrom

SpecFrom == InitFrom /\ [][NextFrom]_vars

\* ----------------------------------------------------------- composites

\* A composite object: its class and the addresses of its fields, in the
\* order of the constructor.  The fields of a SheetDesc (title, formulas,
\* data) and of a RangeDescPair (src, dst) are regions of the heap; the
\* fields of a SheetDescPair (src, dst) are SheetDesc objects of comps.
Composite(kind, f) == [kind |-> kind, f |-> f]

\* x.update_from(y) for each field x of own with the field y of from at the
\* same place (Null for None), one after the other; an error ends it.
RECURSIVE regions_update_from(_, _, _)
regions_update_from(st, own, from) ==
    IF own = <<>> \/ st.err # OK THEN st
    ELSE LET u == update_from(st.h[own[1]],
                              IF from[1] = Null THEN <<>> ELSE <<st.h[from[1]]>>)
         IN  regions_update_from([h |-> [st.h EXCEPT ![own[1]] = u.reg],
                                  err |-> u.err],
                                 Tail(own), Tail(from))

\* x.duplicate() for each field x of own, one after the other; res collects
\* the addresses of the new regions; an error ends it.
RECURSIVE regions_duplicate(_, _, _)
regions_duplicate(st, own, lv) ==
    IF own = <<>> \/ st.err # OK THEN st
    ELSE LET d == duplicate(st.h[own[1]], lv)
         IN  IF d.err # OK THEN [st EXCEPT !.err = d.err]
             ELSE regions_duplicate([h |-> Append(st.h, d.res[1]),
                                     err |-> OK,
                                     res |-> Append(st.res, Len(st.h) + 1)],
                                    Tail(own), lv)

\* SheetDesc.duplicate
SheetDesc_duplicate(h, c, x, lv) ==
    LET d == regions_duplicate([h |-> h, err |-> OK, res |-> <<>>], c[x].f, lv)
    IN  IF d.err # OK THEN [h |-> h, c |-> c, err |-> d.err, res |-> Null]
        ELSE [h |-> d.h, c |-> Append(c, Composite("SheetDesc", d.res)),
              err |-> OK, res |-> Len(c) + 1]

\* SheetDesc.update: title, formulas, data are addresses of regions, or Null.
SheetDesc_update(h, c, x, args) ==
    regions_update_from([h |-> h, err |-> OK], c[x].f, args)

\* SheetDesc.update_from
SheetDesc_update_from(h, c, x, desc) ==
    IF desc = Null THEN [h |-> h, err |-> OK]
    ELSE regions_update_from([h |-> h, err |-> OK], c[x].f, c[desc].f)

\* RangeDescPair.duplicate
RangeDescPair_duplicate(h, c, x, lv) ==
    LET d == regions_duplicate([h |-> h, err |-> OK, res |-> <<>>], c[x].f, lv)
    IN  IF d.err # OK THEN [h |-> h, c |-> c, err |-> d.err, res |-> Null]
        ELSE [h |-> d.h, c |-> Append(c, Composite("RangeDescPair", d.res)),
              err |-> OK, res |-> Len(c) + 1]

\* RangeDescPair.update: src, dst are addresses of regions, or Null.
RangeDescPair_update(h, c, x, args) ==
    regions_update_from([h |-> h, err |-> OK], c[x].f, args)

\* RangeDescPair.update_from
RangeDescPair_update_from(h, c, x, desc) ==
    IF desc = Null THEN [h |-> h, err |-> OK]
    ELSE regions_update_from([h |-> h, err |-> OK], c[x].f, c[desc].f)

\* SheetDescPair.duplicate
SheetDescPair_duplicate(h, c, x, lv) ==
    LET a == SheetDesc_duplicate(h, c, c[x].f[1], lv)
        b == SheetDesc_duplicate(a.h, a.c, c[x].f[2], lv)
    IN  IF a.err # OK THEN [h |-> h, c |-> c, err |-> a.err, res |-> Null]
        ELSE IF b.err # OK THEN [h |-> h, c |-> c, err |-> b.err, res |-> Null]
        ELSE [h |-> b.h,
              c |-> Append(b.c, Composite("SheetDescPair", <<a.res, b.res>>)),
              err |-> OK, res |-> Len(b.c) + 1]

\* SheetDescPair.update: src, dst are addresses of SheetDesc objects, or Null.
SheetDescPair_update(h, c, x, args) ==
    LET a == SheetDesc_update_from(h, c, c[x].f[1], args[1])
    IN  IF a.err # OK THEN a
        ELSE SheetDesc_update_from(a.h, c, c[x].f[2], args[2])

\* SheetDescPair.update_from
SheetDescPair_update_from(h, c, x, desc) ==
    IF desc = Null THEN [h |-> h, err |-> OK]
    ELSE SheetDescPair_update(h, c, x, c[desc].f)

\* The method of the class of the composite at address x.
duplicate_of(h, c, x, lv) ==
    CASE c[x].kind = "SheetDesc" -> SheetDesc_duplicate(h, c, x, lv)
      [] c[x].kind = "RangeDescPair" -> RangeDescPair_duplicate(h, c, x, lv)
      [] c[x].kind = "SheetDescPair" -> SheetDescPair_duplicate(h, c, x, lv)

update_from_of(h, c, x, desc) ==
    CASE c[x].kind = "SheetDesc" -> SheetDesc_update_from(h, c, x, desc)
      [] c[x].kind = "RangeDescPair" -> RangeDescPair_update_from(h, c, x, desc)
      [] c[x].kind = "SheetDescPair" -> SheetDescPair_update_from(h, c, x, desc)

update_of(h, c, x, args) ==
    CASE c[x].kind = "SheetDesc" -> SheetDesc_update(h, c, x, args)
      [] c[x].kind = "RangeDescPair" -> RangeDescPair_update(h, c, x, args)
      [] c[x].kind = "SheetDescPair" -> SheetDescPair_update(h, c, x, args)

\* The regions the caller has put into a composite: fresh, or a cell bound
\* by name to sheet S1 or to sheet S2.
CompRegions ==
    {RangeDesc, Region(<<1, 1, 1, 1>>, <<"B1", "S1">>),
     Region(<<1, 1, 1, 1>>, <<"B1", "S2">>)}

\* The composite x the caller has filled (self) and a second one of the same
\* class as its constructor leaves it (target), with the heap they live in.
CompHeaps ==
    {r \o <<RangeDesc, RangeDesc>> : r \in CompRegions \X CompRegions}
    \cup {r \o <<RangeDesc, RangeDesc, RangeDesc>> :
             r \in CompRegions \X CompRegions \X CompRegions}
    \cup {<<a, a, b, b, a, b>> \o [i \in 1..6 |-> RangeDesc] :
             a \in CompRegions, b \in CompRegions}

InitComp ==
    /\ heap \in CompHeaps
    /\ live \in LiveFor({heap[i] : i \in 1..Len(heap)})
    /\ comps = CASE Len(heap) = 4 ->
                      <<Composite("RangeDescPair", <<1, 2>>),
                        Composite("RangeDescPair", <<3, 4>>)>>
                 [] Len(heap) = 6 ->
                      <<Composite("SheetDesc", <<1, 2, 3>>),
                        Composite("SheetDesc", <<4, 5, 6>>)>>
                 [] Len(heap) = 12 ->
                      <<Composite("SheetDesc", <<1, 2, 3>>),
                        Composite("SheetDesc", <<4, 5, 6>>),
                        Composite("SheetDesc", <<7, 8, 9>>),
                        Composite("SheetDesc", <<10, 11, 12>>),
                        Composite("SheetDescPair", <<1, 2>>),
                        Composite("SheetDescPair", <<3, 4>>)>>
    /\ self = Len(comps) - 1
    /\ target = Len(comps)
    /\ op = "init"
    /\ arg = <<>>
    /\ err = OK
    /\ ret = Null
    /\ ins = <<>>

\* d = x.duplicate() on the composite the caller filled.
CompDuplicate ==
    /\ Placed
    /\ LET d == duplicate_of(heap, comps, self, live)
       IN  /\ heap' = d.h
           /\ comps' = d.c
           /\ err' = d.err
           /\ ret' = d.res
    /\ op' = "comp_duplicate"
    /\ arg' = <<>>
    /\ ins' = <<>>
    /\ UNCHANGED <<self, target, live>>

\* y.update_from(x), or y.update_from(None).
CompUpdateFrom ==
    /\ Placed
    /\ \E desc \in {self, Null} :
          LET u == update_from_of(heap, comps, target, desc)
          IN  /\ heap' = u.h
              /\ err' = u.err
              /\ ret' = IF u.err = OK THEN target ELSE Null
              /\ arg' = <<desc>>
    /\ op' = "comp_update_from"
    /\ ins' = <<>>
    /\ UNCHANGED <<self, target, live, comps>>

\* y.update(...) with, for each field, the field of x or None.
CompUpdate ==
    /\ Placed
    /\ \E pass \in [1..Len(comps[self].f) -> BOOLEAN] :
          LET args == [i \in 1..Len(comps[self].f) |->
                          IF pass[i] THEN comps[self].f[i] ELSE Null]
              u == update_of(heap, comps, target, args)
          IN  /\ heap' = u.h
              /\ err' = u.err
              /\ ret' = IF u.err = OK THEN target ELSE Null
              /\ arg' = <<args>>
    /\ op' = "comp_update"
    /\ ins' = <<>>
    /\ UNCHANGED <<self, target, live, comps>>

\* What one later call does to a region inside a composite: update of
\* row_end, attach to sheet S1, or detach.
Touched(r) ==
    {update(r, <<>>, <<>>, <<r.row_end + 1>>, <<>>).reg,
     attach(r, << <<"B1", "S1">> >>),
     detach(r)} \ {r}

\* After the composite call, one region inside one of the composites is
\* mutated through that composite.
CompTouch ==
    /\ op \in {"comp_duplicate", "comp_update_from", "comp_update"}
    /\ err = OK
    /\ \E o \in 1..Len(heap) :
          \E r \in Touched(heap[o]) :
              /\ heap' = [heap EXCEPT ![o] = r]
              /\ arg' = <<o>>
    /\ op' = "touch"
    /\ UNCHANGED <<self, target, live, err, ret, ins, comps>>

NextComp ==
    \/ CompDuplicate
    \/ CompUpdateFrom
    \/ CompUpdate
    \/ CompTouch

SpecComp == InitComp /\ [][NextComp]_vars

\* ------------------------------------------------------------- claims

\* What the recorded first call was made with.
Pre == arg[1]

\* The sheet reference of r can be looked up: it is unset, or names a surface
\* that exists.
Resolves(r) == Ref(r) = <<None, None>> \/ Ref(r) \in live

\* b lies entirely above, below, left of or right of a.
Separated(a, b) ==
    \/ b.row_start > a.row_end
    \/ b.row_end < a.row_start
    \/ b.col_start > a.col_end
    \/ b.col_end < a.col_start

\* a and b are looked up to the same surface (or are both unbound) and overlap.
SharedOverlap(a, b) ==
    /\ Resolves(a)
    /\ Ref(a) = Ref(b)
    /\ ~Separated(a, b)

\* C1: update(a, b, c, d), an omitted coordinate standing for the current
\* one: when the combined bounds have row_start <= row_end and col_start <=
\* col_end the call returns self and the region holds exactly the combined
\* bounds; otherwise it raises InvalidRange and the four bounds are the ones
\* the region had before the call.
C1_UpdateContract ==
    op = "update" =>
        LET r1 == OrElse(arg[2], Pre.row_start)
            r2 == OrElse(arg[3], Pre.col_start)
            r3 == OrElse(arg[4], Pre.row_end)
            r4 == OrElse(arg[5], Pre.col_end)
        IN  IF r1 <= r3 /\ r2 <= r4
            THEN /\ err = OK
                 /\ ret = self
                 /\ Bounds(heap[self]) = <<r1, r2, r3, r4>>
            ELSE /\ err = InvalidRange
                 /\ Bounds(heap[self]) = Bounds(Pre)

\* update(row_start=2) alone on the region (1,1,1,1): the combined bounds are
\* checked, the call fails and the bounds stay.
C1_Witness ==
    /\ op = "update"
    /\ Bounds(Pre) = <<1, 1, 1, 1>>
    /\ arg[2] = <<2>> /\ arg[3] = <<>> /\ arg[4] = <<>> /\ arg[5] = <<>>
    /\ err = InvalidRange
    /\ Bounds(heap[self]) = <<1, 1, 1, 1>>

\* C2: in every state reached from a fresh region by any sequence of the
\* mutating operations, failing calls included, row_start <= row_end and
\* col_start <= col_end.
C2_OrderingInvariant == Ordered(heap[self])

\* C3: shift_away on overlapping self and target that share a surface, once
\* the insertion went through: mode "down" puts row_start at old top +
\* (target.bottom - old top) + 1 and keeps col_start, mode "right" puts
\* col_start at old left + (target.right - old left) + 1 and keeps row_start;
\* height and width are kept, and the call with the other value of entire
\* gives the same bounds.
C3_ShiftAwayMoves ==
    (/\ op = "shift_away"
     /\ arg[2] # Null
     /\ err = OK
     /\ SharedOverlap(Pre, heap[target])) =>
        LET tg == heap[target]
            now == heap[self]
            other == shift_away(Pre, <<tg>>, live, arg[3], ~arg[4], "ok")
        IN  /\ arg[3] = "down" =>
                /\ now.row_start = Pre.row_start + (tg.row_end - Pre.row_start) + 1
                /\ now.col_start = Pre.col_start
            /\ arg[3] = "right" =>
                /\ now.col_start = Pre.col_start + (tg.col_end - Pre.col_start) + 1
                /\ now.row_start = Pre.row_start
            /\ height(now) = height(Pre)
            /\ width(now) = width(Pre)
            /\ Ref(now) = Ref(Pre)
            /\ ret = self
            /\ other.err = OK /\ other.reg = now

\* A = rows 1-3, cols 1-2 and B = row 2, cols 2-3 on sheet S1, mode "right",
\* a partial insertion: A starts at column 1 + (3 - 1) + 1 = 4.
C3_Witness ==
    /\ op = "shift_away"
    /\ err = OK
    /\ Pre = Region(<<1, 1, 3, 2>>, <<"B1", "S1">>)
    /\ heap[target] = Region(<<2, 2, 2, 3>>, <<"B1", "S1">>)
    /\ arg[3] = "right" /\ arg[4] = FALSE
    /\ Bounds(heap[self]) = <<1, 4, 3, 5>>

\* C4: when self.intersect(target) is None (target is None, or the two are
\* on different surfaces, or separated on some side), shift_away, whatever
\* the mode and entire, requests no insertion, leaves the bounds and the
\* sheet reference of self as they were and returns self.
C4_ShiftAwayNoOverlap ==
    (/\ op = "shift_away"
     /\ Resolves(Pre)
     /\ \/ arg[2] = Null
        \/ /\ Resolves(heap[target])
           /\ Ref(Pre) # Ref(heap[target]) \/ Separated(Pre, heap[target])) =>
        /\ err = OK
        /\ ins = <<>>
        /\ heap[self] = Pre
        /\ ret = self

\* self in column 2, target in column 1 of the same sheet: separated on the
\* left, nothing happens.
C4_Witness ==
    /\ op = "shift_away"
    /\ arg[2] = target
    /\ arg[3] = "right"
    /\ Pre = Region(<<1, 2, 2, 2>>, <<"B1", "S1">>)
    /\ heap[target] = Region(<<1, 1, 2, 1>>, <<"B1", "S1">>)
    /\ ret = self
    /\ heap[self] = Pre

\* C5 as stated: shift_away with a mode other than "right" or "down" raises
\* UnsupportedMode whether or not self and target overlap, requests no
\* insertion and leaves the bounds of self (stated here for two regions
\* bound to the same sheet, one that exists).
C5_AnyBadModeRaises ==
    (/\ op = "shift_away"
     /\ arg[3] \notin {"right", "down"}
     /\ arg[2] # Null
     /\ Ref(Pre) \in live
     /\ Ref(Pre) = Ref(heap[target])) =>
        /\ err = UnsupportedMode
        /\ ins = <<>>
        /\ heap[self] = Pre

\* C5, amended: with a mode other than "right" or "down", shift_away raises
\* UnsupportedMode when self and target overlap on a shared surface, and
\* returns self without an error when self.intersect(target) is None (the
\* overlap is tested before the mode); in every case no insertion is
\* requested and self is unchanged.
C5_BadModeRaisesOnOverlap ==
    (op = "shift_away" /\ arg[3] \notin {"right", "down"}) =>
        /\ ins = <<>>
        /\ heap[self] = Pre
        /\ (arg[2] # Null /\ SharedOverlap(Pre, heap[target])) =>
              err = UnsupportedMode /\ ret = Null
        /\ (/\ Resolves(Pre)
            /\ \/ arg[2] = Null
               \/ /\ Resolves(heap[target])
                  /\ Ref(Pre) # Ref(heap[target]) \/ Separated(Pre, heap[target])) =>
              err = OK /\ ret = self

\* mode "up" on two overlapping regions of sheet S1: UnsupportedMode.
C5_Witness ==
    /\ op = "shift_away"
    /\ arg[3] = "up"
    /\ Pre = Region(<<1, 1, 2, 2>>, <<"B1", "S1">>)
    /\ heap[target] = Region(<<2, 2, 3, 3>>, <<"B1", "S1">>)
    /\ err = UnsupportedMode
    /\ heap[self] = Pre

\* C6: for two regions that share a surface and overlap, a.intersect(b) is a
\* region, b.intersect(a) is a region, and the two have the same four bounds.
C6_IntersectCommutes ==
    (/\ op = "intersect"
     /\ arg[2] # Null
     /\ SharedOverlap(Pre, heap[arg[2]])) =>
        LET back == intersect(heap[arg[2]], <<Pre>>, live)
        IN  /\ err = OK
            /\ ret # Null
            /\ back.err = OK
            /\ back.res # <<>>
            /\ Bounds(back.res[1]) = Bounds(heap[ret])

\* A = rows 1-3, cols 1-2 and B = rows 2-3, cols 2-3: both orders give rows
\* 2-3, col 2.
C6_Witness ==
    /\ op = "intersect"
    /\ arg[2] = target
    /\ Pre = Region(<<1, 1, 3, 2>>, <<"B1", "S1">>)
    /\ heap[target] = Region(<<2, 2, 3, 3>>, <<"B1", "S1">>)
    /\ ret # Null
    /\ Bounds(heap[ret]) = <<2, 2, 3, 2>>

\* C7: self.intersect(target) returns None exactly when target is None, or
\* the two hold different sheet references, or target is separated from
\* self on some side; in every other case it returns a new region that
\* holds the sheet reference of self.
C7_IntersectNullExactly ==
    op = "intersect" =>
        LET none == \/ arg[2] = Null
                    \/ Ref(Pre) # Ref(heap[arg[2]])
                    \/ Separated(Pre, heap[arg[2]])
        IN  /\ err = OK
            /\ none => ret = Null
            /\ ~none =>
                  /\ ret # Null
                  /\ ret \notin {self, target}
                  /\ Ref(heap[ret]) = Ref(Pre)

\* C8: duplicate() returns, for a region in any binding state, a new region
\* with the bounds and the sheet reference of the original; a later change
\* to either of the two leaves the other as it was.
C8_DuplicateIndependent ==
    [][/\ op' = "duplicate" =>
            /\ err' = OK
            /\ ret' # Null
            /\ ret' # self'
            /\ Bounds(heap'[ret']) = Bounds(heap[self])
            /\ Ref(heap'[ret']) = Ref(heap[self])
            /\ heap'[self'] = heap[self]
       /\ (op = "duplicate" /\ err = OK) =>
            \/ heap'[self] = heap[self]
            \/ heap'[target] = heap[target]
      ]_vars

\* The handle update_by resolves its recorded addresses to.
UpdateByHandle == sheet_range(arg[2], arg[3])

\* The recorded update_by found a sheet and a handle and read all of it.
UpdateByResolved ==
    /\ Ref(Pre) \in live
    /\ UpdateByHandle.ok
    /\ arg[4] = 4

\* C9: update_by is all-or-nothing: when the surface and the address resolve
\* the region holds the first and last row and column of the handle; when
\* anything fails (unbound, workbook or sheet missing, invalid address, the
\* handle failing while it is read) no error reaches the caller and the
\* four bounds are the ones the region had.
C9_UpdateByAllOrNothing ==
    op = "update_by" =>
        /\ err = OK
        /\ ret = self
        /\ IF UpdateByResolved
           THEN Bounds(heap[self]) =
                    <<UpdateByHandle.row, UpdateByHandle.column,
                      UpdateByHandle.last_row, UpdateByHandle.last_column>>
           ELSE Bounds(heap[self]) = Bounds(Pre)

\* C10: shift_away on overlapping self and target with a supported mode:
\* when the surface cannot be resolved or the insertion fails, no error
\* reaches the caller and the bounds of self are unchanged; self moves only
\* after an insertion that went through (stated here for two regions placed
\* on the grid of one sheet that exists).
C10_ShiftAwaySwallows ==
    (/\ op = "shift_away"
     /\ arg[2] # Null
     /\ arg[3] \in {"right", "down"}
     /\ Ref(Pre) \in live
     /\ Ref(Pre) = Ref(heap[target])
     /\ ValidAddr(Bounds(Pre))
     /\ ValidAddr(Bounds(heap[target]))
     /\ ~Separated(Pre, heap[target])) =>
        /\ err = OK
        /\ ret = self
        /\ heap[self] # Pre => ins # <<>>

\* C11: offset(dr, dc), an omitted delta counting as 0, on a region that
\* satisfies the ordering invariant returns self with dr added to both rows
\* and dc to both columns, so height, width and the sheet reference are
\* kept and InvalidRange is never raised; on any region, offset(-dr, -dc)
\* after it gives back the four bounds the region had.
C11_OffsetRoundTrip ==
    op = "offset" =>
        LET vr == OrElse(arg[2], 0)
            vc == OrElse(arg[3], 0)
            now == heap[self]
            back == offset(now, <<0 - vr>>, <<0 - vc>>)
        IN  /\ Ordered(Pre) =>
                /\ err = OK
                /\ ret = self
                /\ Bounds(now) = <<Pre.row_start + vr, Pre.col_start + vc,
                                   Pre.row_end + vr, Pre.col_end + vc>>
                /\ height(now) = height(Pre)
                /\ width(now) = width(Pre)
                /\ Ref(now) = Ref(Pre)
                /\ back.err = OK
            /\ back.reg = Pre

\* offset(1) with the column delta omitted on rows 0-1, column 0: rows 1-2.
C11_Witness ==
    /\ op = "offset"
    /\ Bounds(Pre) = <<0, 0, 1, 0>>
    /\ arg[2] = <<1>> /\ arg[3] = <<>>
    /\ err = OK
    /\ Bounds(heap[self]) = <<1, 0, 2, 0>>

\* C12: resize(row_size, column_size) never changes row_start, col_start or
\* the sheet reference.  A requested size below 1 raises InvalidRange and
\* leaves the four bounds; otherwise, on a region that satisfies the ordering
\* invariant, the call succeeds, and after every successful call the height
\* is row_size when given and row_end is unchanged when omitted, and the
\* same for the width.
C12_ResizeEndCorner ==
    op = "resize" =>
        LET now == heap[self]
            below == \/ arg[2] # <<>> /\ arg[2][1] < 1
                     \/ arg[3] # <<>> /\ arg[3][1] < 1
        IN  /\ now.row_start = Pre.row_start
            /\ now.col_start = Pre.col_start
            /\ Ref(now) = Ref(Pre)
            /\ below => err = InvalidRange
            /\ (~below /\ Ordered(Pre)) => err = OK
            /\ err # OK => Bounds(now) = Bounds(Pre)
            /\ err = OK =>
                /\ ret = self
                /\ IF arg[2] = <<>> THEN now.row_end = Pre.row_end
                   ELSE height(now) = arg[2][1]
                /\ IF arg[3] = <<>> THEN now.col_end = Pre.col_end
                   ELSE width(now) = arg[3][1]

\* resize(row_size=2) on the single cell (1,1): row_end becomes 2, the rest
\* stays.
C12_Witness ==
    /\ op = "resize"
    /\ Bounds(Pre) = <<1, 1, 1, 1>>
    /\ arg[2] = <<2>> /\ arg[3] = <<>>
    /\ err = OK
    /\ Bounds(heap[self]) = <<1, 1, 2, 1>>

\* The recorded move with an address string cannot resolve it: the region is
\* unbound, or names a surface that is missing, or the address is invalid.
MoveStrUnresolved == Ref(Pre) \notin live \/ ~ValidAddr(arg[2])

\* C13: move((r, c)) on a region that satisfies the ordering invariant puts
\* the start corner at (r, c), keeps height, width and the sheet reference
\* and raises nothing; move with an address string never raises, and leaves
\* the four bounds when the address cannot be resolved.
C13_MoveKeepsSize ==
    /\ (op = "move" /\ Ordered(Pre)) =>
          LET now == heap[self]
          IN  /\ err = OK
              /\ ret = self
              /\ now.row_start = arg[2][1]
              /\ now.col_start = arg[2][2]
              /\ height(now) = height(Pre)
              /\ width(now) = width(Pre)
              /\ Ref(now) = Ref(Pre)
    /\ op = "move_str" =>
          /\ err = OK
          /\ ret = self
          /\ Ref(heap[self]) = Ref(Pre)
          /\ MoveStrUnresolved => Bounds(heap[self]) = Bounds(Pre)

\* move("A1") on a region at (2,1) bound to sheet S2, which has been
\* removed: nothing is raised, the region stays.
C13_Witness ==
    /\ op = "move_str"
    /\ Pre = Region(<<2, 1, 2, 1>>, <<"B1", "S2">>)
    /\ Ref(Pre) \notin live
    /\ arg[2] = <<1, 1, 1, 1>>
    /\ err = OK
    /\ heap[self] = Pre

\* C14: expand(mode), for every mode, on a region bound to a surface that
\* exists and whose anchor cell reads as empty or blank: no growth is
\* requested of the surface, and the call returns self with the four bounds
\* and the sheet reference as they were.
C14_ExpandBlankAnchor ==
    (/\ op = "expand"
     /\ Ref(Pre) \in live
     /\ ValidAddr(Bounds(Pre))
     /\ arg[3] = "blank") =>
        /\ err = OK
        /\ ret = self
        /\ ins = <<>>
        /\ heap[self] = Pre

\* expand("down") on the cell (1,1) of sheet S1, which reads as blank.
C14_Witness ==
    /\ op = "expand"
    /\ Pre = Region(<<1, 1, 1, 1>>, <<"B1", "S1">>)
    /\ arg[2] = "down"
    /\ arg[3] = "blank"
    /\ ret = self
    /\ heap[self] = Pre

\* Binding r to the sheet reference ref: detach for no reference, else
\* attach to the sheet of that name.
Rebound(r, ref) == IF ref = <<None, None>> THEN detach(r) ELSE attach(r, <<ref>>)

\* C15: update_from(other) with a region makes the sheet reference and the
\* four bounds of self equal to other's, which is what rebinding to other's
\* reference followed by update with other's four bounds gives, never raises
\* InvalidRange and leaves other as it was; update_from(None) changes
\* nothing.
C15_UpdateFromCopies ==
    op = "update_from" =>
        IF arg[2] = Null
        THEN /\ err = OK
             /\ ret = self
             /\ heap[self] = Pre
        ELSE LET other == arg[3][1]
                 twostep == update(Rebound(Pre, Ref(other)),
                                   <<other.row_start>>, <<other.col_start>>,
                                   <<other.row_end>>, <<other.col_end>>)
             IN  /\ err = OK
                 /\ ret = self
                 /\ Ref(heap[self]) = Ref(other)
                 /\ Bounds(heap[self]) = Bounds(other)
                 /\ twostep.err = OK
                 /\ heap[self] = twostep.reg
                 /\ heap[target] = other

\* C16: a fresh region is unbound; attach with a sheet binds the region to
\* the (workbook, sheet) names of that sheet, attach(None) keeps the
\* reference it has, detach() leaves it unbound; attach and detach keep the
\* four bounds, and update, offset, resize and move with a (row, col) pair
\* keep the sheet reference.
C16_BindingStateMachine ==
    /\ Ref(RangeDesc) = <<None, None>>
    /\ op = "attach" =>
          /\ err = OK
          /\ ret = self
          /\ Bounds(heap[self]) = Bounds(Pre)
          /\ Ref(heap[self]) = IF arg[2] = <<>> THEN Ref(Pre) ELSE arg[2][1]
    /\ op = "detach" =>
          /\ err = OK
          /\ ret = self
          /\ Bounds(heap[self]) = Bounds(Pre)
          /\ Ref(heap[self]) = <<None, None>>
    /\ op \in {"update", "offset", "resize", "move"} =>
          Ref(heap[self]) = Ref(Pre)

\* attach(None) on a region bound to sheet S2: it stays bound to S2.
C16_Witness ==
    /\ op = "attach"
    /\ arg[2] = <<>>
    /\ Ref(Pre) = <<"B1", "S2">>
    /\ Bounds(Pre) = <<1, 1, 2, 1>>
    /\ heap[self] = Pre

\* C18: for self and target that satisfy the ordering invariant, share a
\* surface and overlap, intersect returns a new region whose row_start is
\* the larger top, col_start the larger left, row_end the smaller bottom and
\* col_end the smaller right; it satisfies the ordering invariant (nothing
\* is raised), lies inside both self and target, and self and target are as
\* they were.
C18_IntersectIsGeometric ==
    (/\ op = "intersect"
     /\ arg[2] # Null
     /\ Ordered(Pre)
     /\ Ordered(arg[3][1])
     /\ SharedOverlap(Pre, arg[3][1])) =>
        LET a == Pre
            b == arg[3][1]
            receiver == IF arg[2] = target THEN self ELSE target
        IN  /\ err = OK
            /\ ret # Null
            /\ ret \notin {self, target}
            /\ Bounds(heap[ret]) =
                  <<Max(a.row_start, b.row_start), Max(a.col_start, b.col_start),
                    Min(a.row_end, b.row_end), Min(a.col_end, b.col_end)>>
            /\ Ordered(heap[ret])
            /\ \A x \in {a, b} :
                  /\ x.row_start <= heap[ret].row_start
                  /\ x.col_start <= heap[ret].col_start
                  /\ heap[ret].row_end <= x.row_end
                  /\ heap[ret].col_end <= x.col_end
            /\ heap[receiver] = a
            /\ heap[arg[2]] = b

\* A = rows 1-3, cols 1-2 and B = row 2, cols 2-3 on sheet S1: the result is
\* the cell (2,2).
C18_Witness ==
    /\ op = "intersect"
    /\ arg[2] = target
    /\ Pre = Region(<<1, 1, 3, 2>>, <<"B1", "S1">>)
    /\ heap[target] = Region(<<2, 2, 2, 3>>, <<"B1", "S1">>)
    /\ ret # Null
    /\ Bounds(heap[ret]) = <<2, 2, 2, 2>>

\* C19: after a shift_away that went through on overlapping self and target,
\* self lies entirely beyond target: for mode "down" its top is
\* target.bottom + 1, for mode "right" its left is target.right + 1; self
\* has moved by at least 1, and by exactly the number of rows (columns) of
\* the inserted span, which starts at the old top (left) of self.
C19_ShiftAwayClearsTarget ==
    (/\ op = "shift_away"
     /\ arg[2] # Null
     /\ err = OK
     /\ SharedOverlap(Pre, heap[target])) =>
        LET tg == heap[target]
            now == heap[self]
        IN  /\ arg[3] \in {"right", "down"}
            /\ Separated(tg, now)
            /\ ins # <<>>
            /\ ins[1] = arg[3]
            /\ arg[3] = "down" =>
                  /\ now.row_start = tg.row_end + 1
                  /\ now.row_start - Pre.row_start >= 1
                  /\ ins[2][1] = Pre.row_start
                  /\ now.row_start - Pre.row_start = ins[2][3] - ins[2][1] + 1
            /\ arg[3] = "right" =>
                  /\ now.col_start = tg.col_end + 1
                  /\ now.col_start - Pre.col_start >= 1
                  /\ ins[2][2] = Pre.col_start
                  /\ now.col_start - Pre.col_start = ins[2][4] - ins[2][2] + 1

\* target (row 2, cols 1-2) starts before the origin of self (rows 2-3, cols
\* 2-3) and ends inside it; mode "down", whole rows: self moves down by one
\* row, to rows 3-4.
C19_Witness ==
    /\ op = "shift_away"
    /\ err = OK
    /\ Pre = Region(<<2, 2, 3, 3>>, <<"B1", "S1">>)
    /\ heap[target] = Region(<<2, 1, 2, 2>>, <<"B1", "S1">>)
    /\ arg[3] = "down" /\ arg[4] = TRUE
    /\ Bounds(heap[self]) = <<3, 2, 4, 3>>
    /\ ins = <<"down", <<2, 0, 2, 0>>>>

\* The addresses of the regions contained in the composite at address x, in
\* the order of its fields.
RegionsOf(c, x) ==
    IF c[x].kind = "SheetDescPair"
    THEN c[c[x].f[1]].f \o c[c[x].f[2]].f
    ELSE c[x].f

\* The addresses of the SheetDesc objects contained in the composite at x.
SheetsOf(c, x) ==
    IF c[x].kind = "SheetDescPair" THEN {c[x].f[1], c[x].f[2]} ELSE {}

\* The arguments of the recorded update, one per contained region.
PassedRegions(c, args) ==
    IF c[self].kind = "SheetDescPair"
    THEN (IF args[1] = Null THEN <<Null, Null, Null>> ELSE c[args[1]].f)
         \o (IF args[2] = Null THEN <<Null, Null, Null>> ELSE c[args[2]].f)
    ELSE args

\* The composites at x and y contain no object in common.
Unshared(c, x, y) ==
    /\ \A i \in DOMAIN RegionsOf(c, x), j \in DOMAIN RegionsOf(c, y) :
          RegionsOf(c, x)[i] # RegionsOf(c, y)[j]
    /\ SheetsOf(c, x) \cap SheetsOf(c, y) = {}

\* Each region of the composite at x in heap h has the bounds and the sheet
\* reference of the region at the same place of the composite at y in g.
SameRegions(h, c, x, g, y) ==
    \A i \in DOMAIN RegionsOf(c, x) :
        /\ Bounds(h[RegionsOf(c, x)[i]]) = Bounds(g[RegionsOf(c, y)[i]])
        /\ Ref(h[RegionsOf(c, x)[i]]) = Ref(g[RegionsOf(c, y)[i]])

\* The composites the caller holds.
Held == {self, target} \cup (IF op = "comp_duplicate" /\ ret # Null THEN {ret} ELSE {})

\* C17: for SheetDesc, SheetDescPair and RangeDescPair: d = x.duplicate()
\* returns a new composite, and y.update_from(x) leaves y, with each
\* contained region equal in bounds and sheet reference to the region of x
\* at the same place, x as it was, and no contained object in common with
\* x; update and update_from with None for a field leave that field as it
\* was; a later mutation of a region of one composite leaves every region
\* of the others as it was.
C17_CompositesIndependent ==
    [][/\ op' = "comp_duplicate" =>
            /\ err' = OK
            /\ ret' \notin {Null, self, target}
            /\ SameRegions(heap', comps', ret', heap, self)
            /\ SameRegions(heap', comps', self, heap, self)
            /\ Unshared(comps', ret', self)
       /\ op' = "comp_update_from" =>
            /\ err' = OK
            /\ ret' = target
            /\ SameRegions(heap', comps', self, heap, self)
            /\ SameRegions(heap', comps', target, heap,
                           IF arg'[1] = Null THEN target ELSE self)
            /\ Unshared(comps', target, self)
       /\ op' = "comp_update" =>
            /\ err' = OK
            /\ ret' = target
            /\ SameRegions(heap', comps', self, heap, self)
            /\ \A i \in DOMAIN RegionsOf(comps, target) :
                  LET own == RegionsOf(comps, target)[i]
                      from == PassedRegions(comps, arg'[1])[i]
                  IN  IF from = Null THEN heap'[own] = heap[own]
                      ELSE /\ Bounds(heap'[own]) = Bounds(heap[from])
                           /\ Ref(heap'[own]) = Ref(heap[from])
            /\ Unshared(comps', target, self)
       /\ op' = "touch" =>
            \A x \in Held, y \in Held :
                (/\ x # y
                 /\ \E i \in DOMAIN RegionsOf(comps, x) :
                        RegionsOf(comps, x)[i] = arg'[1]) =>
                    \A j \in DOMAIN RegionsOf(comps, y) :
                        heap'[RegionsOf(comps, y)[j]] = heap[RegionsOf(comps, y)[j]]
      ]_vars

====
